---- MODULE Spec2Model ----
(***************************************************************************)
(* Model of src/solvers/ott.py: the benchopt solver adapter `Solver` that  *)
(* wraps the OTT Sinkhorn solver.  The state is the adapter's attributes   *)
(* (x, y, a, b, reg, sinkhorn, _sinkhorn_compile, out); the operations are *)
(* set_objective, pre_run_hook, run and get_result, plus the assignment of *)
(* the `reg` parameter by the caller.  Array contents are abstract: an     *)
(* array is its backend, its shape and an identifier of its data.          *)
(***************************************************************************)
EXTENDS Integers, Sequences, FiniteSets

VARIABLES
    x, y, a, b,         \* self.x, self.y, self.a, self.b
    reg,                \* self.reg, the solver parameter
    sinkhorn,           \* self.sinkhorn, the jitted function
    sinkhorn_compile,   \* self._sinkhorn_compile, the compiled computation
    out,                \* self.out, the stored output of run
    last,               \* the latest operation, its status and returned value
    given,              \* history: the arguments of the latest set_objective
    hooked,             \* history: reg and n_iter of the latest pre_run_hook
    ran                 \* history: the inputs of the latest successful run

vars == <<x, y, a, b, reg, sinkhorn, sinkhorn_compile, out, last, given,
          hooked, ran>>

attrs == <<x, y, a, b, reg, sinkhorn, sinkhorn_compile, out>>

----------------------------------------------------------------------------
(* Bounds of the model. *)

\* Number of benchmark cases (data sets) the harness can supply.
MaxCase == 4
\* Largest n_iter the harness passes.
MaxIter == 2
\* Latest solver iteration at which the marginal error can reach zero.
MaxConv == 3

\* Feature dimension of the point clouds.
Dim == 1
\* The benchmark cases.  Case c has NPoints(c) points in x and MPoints(c)
\* points in y: the sizes are (1,1), (2,1), (2,1), (1,2), (1,2), ... so that
\* cases of equal and of different shapes occur, with n # m both ways.
Cases == 1..MaxCase
NPoints(c) == 1 + ((c \div 2) % 2)
MPoints(c) == 1 + ((c \div 4) % 2)

----------------------------------------------------------------------------
(* Values. *)

\* An attribute that has not been assigned yet (access raises AttributeError).
Absent == [kind |-> "Absent"]

\* A numpy array as the harness supplies it.
NumpyArray(shape, data) ==
    [kind |-> "Array", backend |-> "numpy", shape |-> shape, data |-> data]

\* The parameter grid: reg in {1e-2, 1e-1}, in hundredths.
RegGrid == {[type |-> "float", hundredths |-> 1],
            [type |-> "float", hundredths |-> 10]}

\* float(v): a float is returned as is, an int becomes the float of its value.
Float(v) == [type |-> "float", hundredths |-> v.hundredths]

\* The valid problems: x is n x d, a has length n, y is m x d, b has length m.
Problems ==
    {[x |-> NumpyArray(<<NPoints(c), Dim>>, <<c, "x">>),
      a |-> NumpyArray(<<NPoints(c)>>, <<c, "a">>),
      y |-> NumpyArray(<<MPoints(c), Dim>>, <<c, "y">>),
      b |-> NumpyArray(<<MPoints(c)>>, <<c, "b">>)] : c \in Cases}

\* jnp.array(v): the array in the jax backend, same shape and contents.
JnpArray(v) == [v EXCEPT !.backend = "jax"]

\* np.array(v): the array as a plain numpy array.
NpArray(v) == [v EXCEPT !.backend = "numpy"]

\* The abstract value jax specializes a computation to.
Aval(v) == [shape |-> v.shape]

----------------------------------------------------------------------------
(* The jitted computation _sinkhorn. *)

Threshold == 0

MaxIterationsOff(n_iter) == 10 * n_iter

\* max_iterations=10 * n_iter + 1
MaxIterations(n_iter) == 10 * n_iter + 1

\* The marginal error after iteration i, when it reaches zero at conv.
Err(i, conv) == IF i >= conv THEN 0 ELSE 1

\* Iterations the solver performs: it stops at the first iteration whose
\* error is below the threshold, and at max_iterations at the latest.
Iterations(threshold, max_iterations, conv) ==
    LET stops == {i \in 1..max_iterations : Err(i, conv) < threshold}
    IN  IF stops = {} THEN max_iterations
        ELSE CHOOSE i \in stops : \A j \in stops : i <= j

\* linear_problem.LinearProblem(pointcloud.PointCloud(x, y, epsilon=eps), a, b)
LinearProblem(px, py, pa, pb, eps) ==
    [geom |-> [x |-> px, y |-> py, epsilon |-> eps], a |-> pa, b |-> pb]

\* sinkhorn.Sinkhorn(threshold, lse_mode, max_iterations)(prob)
Sinkhorn(threshold, lse_mode, max_iterations, prob, conv) ==
    [kind |-> "SinkhornOutput",
     prob |-> prob,
     threshold |-> threshold,
     lse_mode |-> lse_mode,
     max_iterations |-> max_iterations,
     n_iters |-> Iterations(threshold, max_iterations, conv)]

\* _sinkhorn(x, y, a, b, eps, n_iter): returns the solver's output object.
SinkhornFn(px, py, pa, pb, eps, n_iter, conv) ==
    Sinkhorn(Threshold, TRUE, MaxIterations(n_iter),
             LinearProblem(px, py, pa, pb, eps), conv)

\* out.matrix: the transport plan, one row per point of x, one column per
\* point of y, determined by the problem and the iterations performed.
Matrix(o) ==
    [kind |-> "Array", backend |-> "jax",
     shape |-> <<o.prob.geom.x.shape[1], o.prob.geom.y.shape[1]>>,
     data |-> [x |-> o.prob.geom.x.data, y |-> o.prob.geom.y.data,
               a |-> o.prob.a.data, b |-> o.prob.b.data,
               eps |-> o.prob.geom.epsilon, n_iters |-> o.n_iters]]

\* jax.jit(_sinkhorn, static_argnames=('eps', 'n_iter'))
Jit == [kind |-> "Jitted", fn |-> "_sinkhorn",
        static_argnames |-> {"eps", "n_iter"}]

\* self.sinkhorn.lower(x, y, a, b, eps, n_iter).compile(): specialized to the
\* abstract values of the arrays and to the static eps and n_iter.
Lower(px, py, pa, pb, eps, n_iter) ==
    [kind |-> "Compiled",
     in_avals |-> <<Aval(px), Aval(py), Aval(pa), Aval(pb)>>,
     eps |-> eps, n_iter |-> n_iter]

\* Whether the compiled computation accepts these arguments.
Accepts(c, px, py, pa, pb) ==
    c.in_avals = <<Aval(px), Aval(py), Aval(pa), Aval(pb)>>

\* compiled(x, y, a, b): the traced function on the arguments, with the
\* static arguments fixed at compilation.
Call(c, px, py, pa, pb, conv) ==
    SinkhornFn(px, py, pa, pb, c.eps, c.n_iter, conv)

----------------------------------------------------------------------------
(* Operations. *)

\* What the latest call was, with its argument, and how it ended.
Returned(op, arg, status, value) ==
    [op |-> op, arg |-> arg, status |-> status, value |-> value]

Init ==
    /\ x = Absent /\ y = Absent /\ a = Absent /\ b = Absent
    /\ reg \in RegGrid
    /\ sinkhorn = Absent
    /\ sinkhorn_compile = Absent
    /\ out = Absent
    /\ last = Returned("init", Absent, "ok", Absent)
    /\ given = Absent
    /\ hooked = Absent
    /\ ran = Absent

\* The caller assigns the parameter `reg` one of the values of the grid.
SetReg(r) ==
    /\ reg' = r
    /\ last' = Returned("set_reg", Absent, "ok", Absent)
    /\ UNCHANGED <<x, y, a, b, sinkhorn, sinkhorn_compile, out, given,
                   hooked, ran>>

\* self.x, self.y, self.a, self.b = map(jnp.array, (v1, v2, v3, v4)) and
\* self.sinkhorn = jax.jit(...), called with the arguments (px, pa, py, pb).
StoreObjective(v1, v2, v3, v4, px, pa, py, pb) ==
    /\ x' = JnpArray(v1)
    /\ y' = JnpArray(v2)
    /\ a' = JnpArray(v3)
    /\ b' = JnpArray(v4)
    /\ sinkhorn' = Jit
    /\ given' = [x |-> px, a |-> pa, y |-> py, b |-> pb]
    /\ last' = Returned("set_objective", Absent, "ok", Absent)
    /\ UNCHANGED <<reg, sinkhorn_compile, out, hooked, ran>>

\* Mutant: the arguments kept in the order of the signature (x, a, y, b).
SetObjectiveSwapped(px, pa, py, pb) ==
    StoreObjective(px, pa, py, pb, px, pa, py, pb)

\* set_objective(x, a, y, b)
SetObjective(px, pa, py, pb) ==
    StoreObjective(px, py, pa, pb, px, pa, py, pb)

\* pre_run_hook(n_iter), c being the computation it compiles.  Reading
\* self.sinkhorn comes first and raises when set_objective never ran.
Prepare(n_iter, c) ==
    IF sinkhorn = Absent
    THEN /\ last' = Returned("pre_run_hook", n_iter, "AttributeError", Absent)
         /\ UNCHANGED <<x, y, a, b, reg, sinkhorn, sinkhorn_compile, out,
                        given, hooked, ran>>
    ELSE /\ sinkhorn_compile' = c
         /\ hooked' = [reg |-> reg, n_iter |-> n_iter,
                       x |-> x, y |-> y, a |-> a, b |-> b]
         /\ last' = Returned("pre_run_hook", n_iter, "ok", Absent)
         /\ UNCHANGED <<x, y, a, b, reg, sinkhorn, out, given, ran>>

\* Mutant: the compiled computation is reused while n_iter is the same.
PreRunHookCached(n_iter) ==
    Prepare(n_iter,
            IF sinkhorn_compile # Absent /\ sinkhorn_compile.n_iter = n_iter
            THEN sinkhorn_compile
            ELSE Lower(x, y, a, b, Float(reg), n_iter))

\* Mutant: the computation is compiled once and kept.
PreRunHookOnce(n_iter) ==
    Prepare(n_iter,
            IF sinkhorn_compile # Absent
            THEN sinkhorn_compile
            ELSE Lower(x, y, a, b, Float(reg), n_iter))

\* pre_run_hook(n_iter)
PreRunHook(n_iter) ==
    Prepare(n_iter, Lower(x, y, a, b, Float(reg), n_iter))

\* run(n_iter), o being the output of the call and c the compiled
\* computation kept.  Reading self._sinkhorn_compile comes first and raises
\* when pre_run_hook never ran; the compiled computation rejects arguments
\* it was not specialized to.
Execute(n_iter, c, o) ==
    IF sinkhorn_compile = Absent
    THEN /\ last' = Returned("run", n_iter, "AttributeError", Absent)
         /\ UNCHANGED <<x, y, a, b, reg, sinkhorn, sinkhorn_compile, out,
                        given, hooked, ran>>
    ELSE IF ~Accepts(sinkhorn_compile, x, y, a, b)
    THEN /\ last' = Returned("run", n_iter, "TypeError", Absent)
         /\ UNCHANGED <<x, y, a, b, reg, sinkhorn, sinkhorn_compile, out,
                        given, hooked, ran>>
    ELSE /\ out' = o
         /\ sinkhorn_compile' = c
         /\ ran' = [x |-> x, y |-> y, a |-> a, b |-> b,
                    compiled |-> sinkhorn_compile,
                    again |-> /\ ran # Absent
                              /\ ran.x = x /\ ran.y = y
                              /\ ran.a = a /\ ran.b = b
                              /\ ran.compiled = sinkhorn_compile]
         /\ last' = Returned("run", n_iter, "ok", Absent)
         /\ UNCHANGED <<x, y, a, b, reg, sinkhorn, given, hooked>>

\* Mutant: the iteration count passed to run is the one used.
RunWithArg(n_iter) ==
    \E conv \in 1..MaxConv :
        Execute(n_iter, sinkhorn_compile,
                SinkhornFn(x, y, a, b, sinkhorn_compile.eps, n_iter, conv))

\* Mutant: run compiles for the iteration count it is passed.
RunRecompiling(n_iter) ==
    \E conv \in 1..MaxConv :
        Execute(n_iter, Lower(x, y, a, b, Float(reg), n_iter),
                Call(sinkhorn_compile, x, y, a, b, conv))

\* Mutant: the solver resumes from the iterations of the stored output.
RunWarmStart(n_iter) ==
    \E conv \in 1..MaxConv :
        Execute(n_iter, sinkhorn_compile,
                LET o == Call(sinkhorn_compile, x, y, a, b, conv)
                IN  [o EXCEPT !.n_iters =
                        @ + (IF out = Absent THEN 0 ELSE out.n_iters)])

\* Mutant: a missing compiled computation is swallowed and an empty output
\* is stored.
RunSwallowing(n_iter) ==
    IF sinkhorn_compile = Absent
    THEN /\ out' = [kind |-> "None"]
         /\ last' = Returned("run", n_iter, "ok", Absent)
         /\ UNCHANGED <<x, y, a, b, reg, sinkhorn, sinkhorn_compile, given,
                        hooked, ran>>
    ELSE \E conv \in 1..MaxConv :
            Execute(n_iter, sinkhorn_compile,
                    Call(sinkhorn_compile, x, y, a, b, conv))

\* run(n_iter): self.out = self._sinkhorn_compile(x, y, a, b).  The marginal
\* error of the problem may reach zero at any iteration conv.
Run(n_iter) ==
    \E conv \in 1..MaxConv :
        Execute(n_iter, sinkhorn_compile,
                Call(sinkhorn_compile, x, y, a, b, conv))

\* get_result() returning v and leaving o as the stored output.
Project(v, o) ==
    IF out = Absent
    THEN /\ last' = Returned("get_result", Absent, "AttributeError", Absent)
         /\ UNCHANGED <<x, y, a, b, reg, sinkhorn, sinkhorn_compile, out,
                        given, hooked, ran>>
    ELSE /\ last' = Returned("get_result", Absent, "ok", v)
         /\ out' = o
         /\ UNCHANGED <<x, y, a, b, reg, sinkhorn, sinkhorn_compile, given,
                        hooked, ran>>

\* Mutant: the stored output is released once it has been read.
GetResultConsuming == Project(NpArray(Matrix(out)), Absent)

\* get_result(): np.array(self.out.matrix)
GetResult == Project(NpArray(Matrix(out)), out)

Next ==
    \/ \E r \in RegGrid : SetReg(r)
    \/ \E p \in Problems : SetObjective(p.x, p.a, p.y, p.b)
    \/ \E n \in 1..MaxIter : PreRunHook(n)
    \/ \E n \in 1..MaxIter : Run(n)
    \/ GetResult

Spec == Init /\ [][Next]_vars

----------------------------------------------------------------------------
(* Properties. *)

RanOk == last.op = "run" /\ last.status = "ok"
HookedOk == last.op = "pre_run_hook" /\ last.status = "ok"
GotResult == last.op = "get_result" /\ last.status = "ok"

\* Whether the stored array v holds the contents and shape of the argument g.
Holds(v, g) ==
    v.kind = "Array" /\ v.backend = "jax" /\ v.shape = g.shape
    /\ v.data = g.data

\* C1: a successful run(n) stores the output computed with the iteration
\* count and the regularization of the latest pre_run_hook, on the arrays
\* stored at the time of the run, whatever n is.
C1_RunUsesLatestPrepared ==
    [][(last'.op = "run" /\ last'.status = "ok") =>
          /\ out'.prob.geom.x = x /\ out'.prob.geom.y = y
          /\ out'.prob.a = a /\ out'.prob.b = b
          /\ out'.prob.geom.epsilon = hooked.reg
          /\ out'.max_iterations = 10 * hooked.n_iter + 1]_vars

\* C1 witness: a run succeeded with an argument other than the prepared
\* iteration count, after reg and the stored arrays changed since the hook.
C1_Witness ==
    /\ RanOk
    /\ last.arg # hooked.n_iter
    /\ hooked.reg # reg
    /\ hooked.x # x

\* C2: the output of a run was computed with max_iterations = 10 * n_iter + 1
\* for the prepared n_iter and threshold 0, and the solver performed all of
\* these iterations.
C2_FullIterationBudget ==
    out # Absent =>
        /\ out.max_iterations = 10 * ran.compiled.n_iter + 1
        /\ out.threshold = 0
        /\ out.lse_mode
        /\ out.n_iters = out.max_iterations

\* C2 witness: a run prepared with the largest n_iter performed its budget.
C2_Witness ==
    /\ RanOk
    /\ ran.compiled.n_iter = MaxIter
    /\ out.n_iters = 10 * MaxIter + 1

\* C3 as stated: right after a successful run, the output was computed with
\* the adapter's current reg value.
C3_RunUsesCurrentReg ==
    RanOk => out.prob.geom.epsilon = reg

\* C3 amended: pre_run_hook always specializes to the current reg value, and
\* run uses the regularization of the cached computation.
C3_HookUsesCurrentReg ==
    /\ HookedOk => sinkhorn_compile.eps = reg
    /\ RanOk => out.prob.geom.epsilon = sinkhorn_compile.eps

\* C3 witness: reg changed after the hook and the run used the old value.
C3_Witness ==
    /\ RanOk
    /\ out.prob.geom.epsilon # reg
    /\ sinkhorn_compile.eps = out.prob.geom.epsilon

\* C4: get_result leaves every attribute unchanged and returns the plain
\* transport plan of the stored output.
C4_GetResultReadOnly ==
    [][last'.op = "get_result" =>
          /\ UNCHANGED attrs
          /\ out # Absent =>
                /\ last'.status = "ok"
                /\ last'.value.kind = "Array"
                /\ last'.value.backend = "numpy"
                /\ last'.value.shape = <<out.prob.geom.x.shape[1],
                                         out.prob.geom.y.shape[1]>>
                /\ last'.value.data.eps = out.prob.geom.epsilon
                /\ last'.value.data.n_iters = out.n_iters
                /\ last'.value.data.x = out.prob.geom.x.data
                /\ last'.value.data.y = out.prob.geom.y.data]_vars

\* C4 witness: get_result returned a 1 x 2 plan.
C4_Witness ==
    /\ GotResult
    /\ last.value.shape = <<1, 2>>
    /\ out # Absent

\* C5: the cached compiled computation is the one of the latest
\* pre_run_hook: specialized to the arrays stored then, to the reg value
\* then and to its n_iter.
C5_CachedIsLatestHook ==
    /\ (sinkhorn_compile = Absent) <=> (hooked = Absent)
    /\ hooked # Absent =>
          /\ sinkhorn_compile.kind = "Compiled"
          /\ sinkhorn_compile.n_iter = hooked.n_iter
          /\ sinkhorn_compile.eps = hooked.reg
          /\ sinkhorn_compile.in_avals =
                <<[shape |-> hooked.x.shape], [shape |-> hooked.y.shape],
                  [shape |-> hooked.a.shape], [shape |-> hooked.b.shape]>>

\* C5 witness: a hook replaced the computation an earlier run had used by one
\* of another iteration count.
C5_Witness ==
    /\ HookedOk
    /\ ran # Absent
    /\ ran.compiled.n_iter # sinkhorn_compile.n_iter

\* C6: run changes nothing but the stored output, and only set_objective
\* changes the stored arrays.
C6_RunChangesOnlyOut ==
    [][/\ last'.op = "run" =>
             UNCHANGED <<x, y, a, b, reg, sinkhorn, sinkhorn_compile>>
       /\ last'.op = "pre_run_hook" => UNCHANGED <<x, y, a, b, reg, out>>
       /\ last'.op # "set_objective" => UNCHANGED <<x, y, a, b>>]_vars

\* C6 witness: a run stored an output for a prepared computation of another
\* iteration count than its argument.
C6_Witness ==
    /\ RanOk
    /\ out # Absent
    /\ sinkhorn_compile.n_iter # last.arg
    /\ Holds(x, given.x)

\* C7: a run on the same arrays with the same compiled computation as the
\* run before it stores the same output.
C7_Deterministic ==
    [][(last'.op = "run" /\ last'.status = "ok" /\ ran'.again) =>
          out' = out]_vars

\* C7 witness: a run repeated the inputs of the run before it.
C7_Witness ==
    /\ RanOk
    /\ ran.again

\* C8: the stored output of the compiled computation is the selected
\* transport-plan matrix, which get_result converts without any attribute
\* access.
C8_OutputsSelectedInsideJit ==
    /\ out # Absent => out.kind = "Array"
    /\ GotResult => last.value = NpArray(out)

\* C9: the stored arrays are the arguments of set_objective under their own
\* roles, the computation is specialized to and run on (x, y, a, b) in this
\* order, and the plan has one row per point of x and one column per point
\* of y.
C9_NoSwap ==
    /\ given # Absent =>
          /\ Holds(x, given.x) /\ Holds(y, given.y)
          /\ Holds(a, given.a) /\ Holds(b, given.b)
    /\ HookedOk =>
          sinkhorn_compile.in_avals =
              <<[shape |-> given.x.shape], [shape |-> given.y.shape],
                [shape |-> given.a.shape], [shape |-> given.b.shape]>>
    /\ RanOk =>
          /\ Holds(out.prob.geom.x, given.x)
          /\ Holds(out.prob.geom.y, given.y)
          /\ Holds(out.prob.a, given.a)
          /\ Holds(out.prob.b, given.b)
          /\ out.prob.a.shape = <<out.prob.geom.x.shape[1]>>
          /\ out.prob.b.shape = <<out.prob.geom.y.shape[1]>>
    /\ GotResult =>
          last.value.shape = <<ran.x.shape[1], ran.y.shape[1]>>

\* C9 witness: get_result returned a 2 x 1 plan for the stored problem of 2
\* points in x and 1 point in y.
C9_Witness ==
    /\ GotResult
    /\ last.value.shape = <<2, 1>>
    /\ given.x.shape = <<2, Dim>>
    /\ given.b.shape = <<1>>

\* C10: pre_run_hook before set_objective, run before pre_run_hook and
\* get_result before run fail, a failing call changes no attribute, and
\* set_objective, pre_run_hook, run, get_result in this order all succeed.
C10_LifecycleErrors ==
    [][/\ last'.status # "ok" => UNCHANGED attrs
       /\ last'.op = "set_objective" => last'.status = "ok"
       /\ last'.op = "pre_run_hook" =>
             (last'.status = "AttributeError" <=> sinkhorn = Absent)
       /\ last'.op = "pre_run_hook" =>
             (last'.status = "ok" <=> sinkhorn # Absent)
       /\ (last'.op = "run" /\ sinkhorn_compile = Absent) =>
             (last'.status = "AttributeError" /\ out' = out)
       /\ (last'.op = "run" /\ HookedOk) => last'.status = "ok"
       /\ last'.op = "get_result" =>
             (last'.status = "AttributeError" <=> out = Absent)
       /\ last'.op = "get_result" =>
             (last'.status = "ok" <=> out # Absent)]_vars

\* C10 witness: run was called after set_objective and before any
\* pre_run_hook, and failed.
C10_Witness ==
    /\ last.op = "run"
    /\ last.status = "AttributeError"
    /\ sinkhorn # Absent
    /\ sinkhorn_compile = Absent
    /\ out = Absent

====
